---------------------------- MODULE Spec2Model ----------------------------
(***************************************************************************)
(* The control service of a mesh node (pkg/controlsvc/controlsvc.go):      *)
(* the command registry (Server.controlTypes under controlFuncLock), the   *)
(* session engine (Server.RunControlSession) and the listener manager      *)
(* (Server.RunControlSvc).                                                 *)
(*                                                                         *)
(* Bytes are one-character strings, a line is a sequence of bytes, and     *)
(* what the engine writes is a string.                                     *)
(***************************************************************************)
EXTENDS Integers, Sequences, FiniteSets, TLC

\* Number of connections (one session goroutine each) the model follows.
MaxSessions == 2

Sessions == 1..MaxSessions

\* Go's nil for strings, errors and interface values.
Nil == "<nil>"

---------------------------------------------------------------------------
(* Text helpers: strings.ToLower, strings.SplitN, encoding/json.            *)

Q == "\""
NL == "\n"

UpperCase == <<"A","B","C","D","E","F","G","H","I","J","K","L","M",
               "N","O","P","Q","R","S","T","U","V","W","X","Y","Z">>
LowerCase == <<"a","b","c","d","e","f","g","h","i","j","k","l","m",
               "n","o","p","q","r","s","t","u","v","w","x","y","z">>

ToLowerByte(c) ==
    IF \E i \in 1..26 : UpperCase[i] = c
    THEN LowerCase[CHOOSE i \in 1..26 : UpperCase[i] = c]
    ELSE c

\* strings.ToLower
ToLower(str) == [i \in 1..Len(str) |-> ToLowerByte(str[i])]

\* index of the first space of str, 0 when it has none
RECURSIVE IndexSpace(_, _)
IndexSpace(str, i) ==
    IF i > Len(str) THEN 0
    ELSE IF str[i] = " " THEN i
    ELSE IndexSpace(str, i + 1)

\* strings.SplitN(str, " ", 2)
SplitN2(str) ==
    LET k == IndexSpace(str, 1)
    IN  IF k = 0 THEN <<str>>
        ELSE <<SubSeq(str, 1, k - 1), SubSeq(str, k + 1, Len(str))>>

\* The errors of encoding/json: the text ends early, or the byte c is not
\* what the decoder can take at this place.
ErrJSONEOF == "unexpected end of JSON input"
ErrJSONChar(c, place) == "invalid character '" \o c \o "' " \o place

CommandKey == <<"c","o","m","m","a","n","d">>

EmptyMap == <<>>

IsDigit(c) == c \in {"0","1","2","3","4","5","6","7","8","9"}

\* index of the next double quote at or after i, 0 when there is none
RECURSIVE CloseQuote(_, _)
CloseQuote(b, i) ==
    IF i > Len(b) THEN 0
    ELSE IF b[i] = Q THEN i
    ELSE CloseQuote(b, i + 1)

\* first index at or after i that holds no digit
RECURSIVE DigitsEnd(_, _)
DigitsEnd(b, i) ==
    IF i > Len(b) THEN i
    ELSE IF IsDigit(b[i]) THEN DigitsEnd(b, i + 1)
    ELSE i

JFail(e) == [err |-> e, val |-> EmptyMap, next |-> 0]
JOk(v, n) == [err |-> Nil, val |-> v, next |-> n]

\* A JSON value at b[i]: a string without escapes, or an unsigned integer
\* (the texts of the model hold no white space, escape or nested value).
JSONValue(b, i) ==
    IF i > Len(b) THEN JFail(ErrJSONEOF)
    ELSE IF b[i] = Q THEN
        LET j == CloseQuote(b, i + 1)
        IN  IF j = 0 THEN JFail(ErrJSONEOF)
            ELSE JOk([t |-> "string", v |-> SubSeq(b, i + 1, j - 1)], j + 1)
    ELSE IF IsDigit(b[i]) THEN
        LET j == IF b[i] = "0" THEN i + 1 ELSE DigitsEnd(b, i)
        IN  JOk([t |-> "number", v |-> SubSeq(b, i, j - 1)], j)
    ELSE JFail(ErrJSONChar(b[i], "looking for beginning of value"))

\* The members of a JSON object from the key at b[i] to the closing brace;
\* a repeated key keeps its last value.
RECURSIVE JSONMembers(_, _, _)
JSONMembers(b, i, m) ==
    IF i > Len(b) THEN JFail(ErrJSONEOF)
    ELSE IF b[i] # Q
         THEN JFail(ErrJSONChar(b[i], "looking for beginning of object key string"))
    ELSE
      LET j == CloseQuote(b, i + 1)
      IN  IF j = 0 \/ j + 1 > Len(b) THEN JFail(ErrJSONEOF)
          ELSE IF b[j + 1] # ":"
               THEN JFail(ErrJSONChar(b[j + 1], "after object key"))
          ELSE
            LET r == JSONValue(b, j + 2)
                m2 == (SubSeq(b, i + 1, j - 1) :> r.val) @@ m
            IN  IF r.err # Nil THEN r
                ELSE IF r.next > Len(b) THEN JFail(ErrJSONEOF)
                ELSE IF b[r.next] = "}" THEN JOk(m2, r.next + 1)
                ELSE IF b[r.next] = "," THEN JSONMembers(b, r.next + 1, m2)
                ELSE JFail(ErrJSONChar(b[r.next],
                                       "after object key:value pair"))

\* json.Unmarshal(b, &jsonData) for a b that starts with '{': the error and
\* the map it leaves in jsonData (nil when the text is not valid JSON).
Unmarshal(b) ==
    LET r == IF Len(b) < 2 THEN JFail(ErrJSONEOF)
             ELSE IF b[2] = "}" THEN JOk(EmptyMap, 3)
             ELSE JSONMembers(b, 2, EmptyMap)
    IN  IF r.err # Nil THEN [err |-> r.err, isNil |-> TRUE, fields |-> EmptyMap]
        ELSE IF r.next <= Len(b)
             THEN [err |-> ErrJSONChar(b[r.next], "after top-level value"),
                   isNil |-> TRUE, fields |-> EmptyMap]
        ELSE [err |-> Nil, isNil |-> FALSE, fields |-> r.val]


ErrMarshal == "json: unsupported type: chan int"

\* json.Marshal of a value of a result map: a string, or a channel (which
\* encoding/json refuses).
MarshalValue(v) ==
    IF v.t = "string" THEN [err |-> Nil, bytes |-> Q \o v.v \o Q]
    ELSE [err |-> ErrMarshal, bytes |-> ""]

\* json.Marshal(cfr) of a non-nil map, given as its <<key, value>> pairs in
\* key order; on an error the bytes are nil.
RECURSIVE MarshalPairs(_, _)
MarshalPairs(pairs, i) ==
    IF i > Len(pairs) THEN [err |-> Nil, bytes |-> ""]
    ELSE LET v == MarshalValue(pairs[i][2])
             rest == MarshalPairs(pairs, i + 1)
         IN  IF v.err # Nil THEN v
             ELSE IF rest.err # Nil THEN rest
             ELSE [err |-> Nil,
                   bytes |-> Q \o pairs[i][1] \o Q \o ":" \o v.bytes
                             \o (IF i < Len(pairs) THEN "," ELSE "")
                             \o rest.bytes]

Marshal(pairs) ==
    LET r == MarshalPairs(pairs, 1)
    IN  IF r.err # Nil THEN r
        ELSE [err |-> Nil, bytes |-> "{" \o r.bytes \o "}"]

---------------------------------------------------------------------------
(* The parser of one framed line (RunControlSession, lines 171-202).        *)

ErrNotString == "command must be a string"
ErrNoCommand == "JSON did not contain a command"

NilJSON == [isNil |-> TRUE, fields |-> EmptyMap]

\* The structured path: line 174-193 up to the write of the error.
ParseJSONLine(line) ==
    LET u == Unmarshal(line)
        has == u.err = Nil /\ CommandKey \in DOMAIN u.fields
        isStr == has /\ u.fields[CommandKey].t = "string"
    IN  [cmd      |-> IF isStr THEN u.fields[CommandKey].v ELSE <<>>,
         params   |-> <<>>,
         jsonData |-> [isNil |-> u.isNil, fields |-> u.fields],
         err      |-> IF u.err # Nil THEN u.err
                      ELSE IF ~has THEN ErrNoCommand
                      ELSE IF ~isStr THEN ErrNotString
                      ELSE Nil]

\* The plain-text path: lines 195-201.
ParseTextLine(line) ==
    LET tokens == SplitN2(line)
    IN  [cmd      |-> ToLower(tokens[1]),
         params   |-> IF Len(tokens) > 1 THEN tokens[2] ELSE <<>>,
         jsonData |-> NilJSON,
         err      |-> Nil]

\* a parser that lower-cases the structured name too (the code does not)
ParseLineLowerJSON(line) ==
    IF line[1] = "{"
    THEN [ParseJSONLine(line) EXCEPT !.cmd = ToLower(@)]
    ELSE ParseTextLine(line)

\* lines 171-202 for a non-empty line
ParseLine(line) ==
    IF line[1] = "{" THEN ParseJSONLine(line) ELSE ParseTextLine(line)

\* fmt.Sprintf("ERROR: %s\n", err)
ErrorLine(msg) == "ERROR: " \o msg \o NL

\* the unknown-command response without its newline (the code writes one)
UnknownLineNoNewline == "ERROR: Unknown command"

\* line 251
UnknownLine == "ERROR: Unknown command" \o NL

MarshalErrorLine(msg) ==
    "ERROR: could not convert response to JSON: " \o msg \o NL

NodeID == "node1"

GreetingLine == "Receptor Control, node " \o NodeID \o NL

---------------------------------------------------------------------------
(* What the peers send and what the commands answer.                        *)

JCmd(v) == <<"{", Q>> \o CommandKey \o <<Q, ":">> \o v

NamePing == <<"p","i","n","g">>
NameStatus == <<"s","t","a","t","u","s">>
NameConnect == <<"c","o","n","n","e","c","t">>
NameTraceroute == <<"t","r","a","c","e","r","o","u","t","e">>
NamePING == <<"P","I","N","G">>

\* The lines a peer of the session specification sends; a peer may end any
\* of them early, with a newline or by closing, so that every prefix of
\* these is an input too.
Lines ==
    { NamePING,
      <<"P","i","n","g"," ","a"," ","b">>,
      <<"n","o">>,
      <<" ","x">>,
      <<"{","}">>,
      JCmd(<<Q>> \o NamePing \o <<Q, "}">>),
      JCmd(<<Q>> \o NamePing \o <<Q, ",", Q, "a", Q, ":", Q, "b", Q, "}">>),
      JCmd(<<Q>> \o NamePING \o <<Q, "}">>),
      JCmd(<<"1", "}">>) }

\* The lines of the peer of a session that registrations run beside.
RegLines == { NamePing, <<"n","o">>, <<"{">> }

Prefixes(L) == UNION { { SubSeq(l, 1, k) : k \in 0..Len(l) } : l \in L }

Bytes(P) == { p[Len(p)] : p \in P \ {<<>>} }

\* The factories of New (lines 107-110) and those other packages register.
StdTypes ==
    (NamePing :> "pingCommandType") @@ (NameStatus :> "statusCommandType")
    @@ (NameConnect :> "connectCommandType")
    @@ (NameTraceroute :> "tracerouteCommandType")

\* New(stdServices, nc).controlTypes
New(stdServices) == IF stdServices THEN StdTypes ELSE <<>>

\* What AddControlFunc is called with.
AddNames == { NamePing, <<"n","o">> }
AddTypes == { "typeA", "typeB" }

\* What a command type's InitFromString / InitFromJSON may return as error.
InitErrors == { "bad arguments" }

NilMap == [isNil |-> TRUE, pairs |-> <<>>]
NonNil(pairs) == [isNil |-> FALSE, pairs |-> pairs]

\* What a command's ControlFunc may return: (nil, nil), a map, an error, an
\* error beside a map, a map encoding/json cannot serialize.
RunResults ==
    { [err |-> Nil, cfr |-> NilMap],
      [err |-> Nil, cfr |-> NonNil(<<>>)],
      [err |-> Nil, cfr |-> NonNil(<< <<"value", [t |-> "string", v |-> "hi"]>> >>)],
      [err |-> Nil, cfr |-> NonNil(<< <<"c", [t |-> "chan", v |-> ""]>> >>)],
      [err |-> "command failed", cfr |-> NilMap],
      [err |-> "command failed", cfr |-> NonNil(<<>>)] }

\* The calls a command may make on the ControlFuncOperations it is given
\* (lines 32-37): `message` is the message argument, `data` what arrives
\* on the channel `in` of WriteToConn before it is closed, or what the
\* other end `bc` of BridgeConn sends.
CallClose == [op |-> "Close", message |-> "", data |-> <<>>]
CallWriteToConn(message, in) ==
    [op |-> "WriteToConn", message |-> message, data |-> in]
CallReadFromConn(message) ==
    [op |-> "ReadFromConn", message |-> message, data |-> <<>>]
CallBridgeConn(message, sent) ==
    [op |-> "BridgeConn", message |-> message, data |-> sent]

\* The calls, in order, that the ControlFunc of a command makes on cfo
\* before it returns (it may return before the end of the list).
Scripts ==
    { <<>>,
      <<CallClose, CallClose>>,
      <<CallWriteToConn("hello\n", <<"a", "b">>)>>,
      <<CallWriteToConn("", <<>>), CallClose>>,
      <<CallReadFromConn("")>>,
      <<CallReadFromConn("Reading\n"), CallWriteToConn("", <<"a">>)>>,
      <<CallBridgeConn("Connecting\n", <<"x">>)>>,
      <<CallBridgeConn("", <<>>), CallClose>> }

\* The scripts of the commands that use the connection themselves where
\* several sessions run: one call each.
SmallScripts ==
    { <<CallClose>>,
      <<CallWriteToConn("", <<"a">>)>>,
      <<CallReadFromConn("Reading\n")>>,
      <<CallBridgeConn("", <<>>)>> }

\* What surrounds a session: `prefixes`, what its peer may have sent of a
\* line; `ends`, where the peer may end the line by a newline; `eofs`, where
\* it may close the stream; `initErrors`, what the constructors of the
\* commands return; `runs`, what their ControlFunc does: the calls it makes
\* on the connection and what it may return after them.
FullEnv ==
    [prefixes |-> Prefixes(Lines), ends |-> Prefixes(Lines),
     eofs |-> Prefixes(Lines),
     initErrors |-> InitErrors,
     runs |-> { [script |-> sc, results |-> RunResults] : sc \in Scripts }]

SmallResults == { r \in RunResults : r.cfr.isNil \/ r.cfr.pairs # <<>> }

\* A command that makes no call on the connection and returns anything.
PlainRun(results) == [script |-> <<>>, results |-> results]

\* The commands that use the connection themselves and return (nil, nil).
StreamingRuns ==
    { [script |-> sc, results |-> {[err |-> Nil, cfr |-> NilMap]}] :
        sc \in SmallScripts }

\* A peer that connects, sends nothing and leaves its stream open.
IdlePeer ==
    [prefixes |-> {<<>>}, ends |-> {}, eofs |-> {}, initErrors |-> {},
     runs |-> {}]

\* The peers of the service specification: the first client sends ping
\* commands, unfinished JSON objects and empty lines, and closes its stream
\* between two lines; any other one is idle.
SvcEnv(c) ==
    LET L == {NamePing, <<"{">>}
    IN  IF c = 1
        THEN [prefixes |-> Prefixes(L) \cup {<<>>}, ends |-> L \cup {<<>>},
              eofs |-> {<<>>},
              initErrors |-> {},
              runs |-> {PlainRun(SmallResults)} \cup StreamingRuns]
        ELSE IdlePeer

\* The peers of the service where only its listeners are looked at: the
\* first client sends ping commands and unfinished JSON objects, and closes
\* its stream between two lines; any other one is idle. The commands that
\* make no call on the connection fail or return a map.
FairEnv(c) ==
    LET L == {NamePing, <<"{">>}
    IN  IF c = 1
        THEN [prefixes |-> Prefixes(L) \cup {<<>>}, ends |-> L,
              eofs |-> {<<>>},
              initErrors |-> {},
              runs |-> {PlainRun({ r \in SmallResults :
                                     r.cfr.isNil # (r.err = Nil) })}
                       \cup StreamingRuns]
        ELSE IdlePeer

\* The peers of concurrent sessions: the first client sends ping commands,
\* the second status commands and unfinished JSON objects, both also empty
\* lines; any further one is idle. The status commands use the connection
\* themselves.
ConcEnv(c) ==
    LET L == IF c = 1 THEN {NamePing} ELSE {NameStatus, <<"{">>}
    IN  IF c \in {1, 2}
        THEN [prefixes |-> Prefixes(L) \cup {<<>>}, ends |-> L \cup {<<>>},
              eofs |-> {<<>>},
              initErrors |-> {},
              runs |-> IF c = 2 THEN StreamingRuns
                       ELSE {PlainRun(SmallResults)}]
        ELSE IdlePeer

RegEnv ==
    [prefixes |-> Prefixes(RegLines), ends |-> RegLines \cup {<<>>},
     eofs |-> {<<>>},
     initErrors |-> {},
     runs |-> {PlainRun(SmallResults)} \cup StreamingRuns]

---------------------------------------------------------------------------
(* State.                                                                   *)

VARIABLES
    controlTypes,   \* Server.controlTypes: name -> command type
    lockW,          \* controlFuncLock: the registrar holding Lock, 0 if none
    lockR,          \* controlFuncLock: the sessions holding RLock
    adds,           \* the calls of AddControlFunc: pc, name, cType, ret
    pc,             \* where each session goroutine is in RunControlSession
    conn,           \* the connection of each session, 0 before it starts
    done,           \* done (line 145)
    cmdBytes,       \* cmdBytes (line 149)
    cmd,            \* cmd (line 171)
    params,         \* params (line 172)
    jsonData,       \* jsonData (line 173)
    ct,             \* ct (line 204)
    err,            \* err (line 140)
    cfr,            \* cfr (line 216)
    closed,         \* per connection, how many times Close was called on it
    trace,          \* per connection, what was done on it since the current
                    \* line of its session began
    from,           \* per session, the listener that accepted its connection
    eof,            \* per connection, whether the end of its stream was read
    cfo,            \* per session, what the running command does with its
                    \* ControlFuncOperations: the calls it has yet to make
                    \* and the writes the current call has yet to make
    service,        \* RunControlSvc: the service argument
    unixSocket,     \* RunControlSvc: the unixSocket argument
    svcPc,          \* RunControlSvc: where the call is
    svcRet,         \* RunControlSvc: the error it returned
    uli,            \* uli (line 263): "nil", "open" or "closed"
    li,             \* li (line 274): "nil", "open" or "closed"
    lock,           \* lock (line 264): "nil", "held" or "unlocked"
    ctxDone,        \* whether ctx.Done() is closed
    watcher,        \* the goroutine of lines 287-299
    accepting       \* the accept loops of lines 301-310 and 313-322

regVars == <<controlTypes, lockW, lockR, adds>>
lineVars == <<cmd, params, jsonData, ct, cfr>>
sessVars == <<pc, conn, done, cmdBytes, cmd, params, jsonData, ct, err, cfr,
              closed, trace, from, eof, cfo>>
svcVars == <<service, unixSocket, svcPc, svcRet, uli, li, lock, ctxDone,
             watcher, accepting>>

Registrars == 1..2

IdleAdd == [pc |-> "idle", name |-> <<>>, cType |-> Nil, ret |-> Nil]

\* No command is running: no call to make, none under way.
NoCalls == [script |-> <<>>, at |-> "none", left |-> <<>>, results |-> {}]

\* The locals of a session before its first line, and at each new line.
InitSession ==
    /\ done = [s \in Sessions |-> FALSE]
    /\ cmdBytes = [s \in Sessions |-> <<>>]
    /\ cmd = [s \in Sessions |-> <<>>]
    /\ params = [s \in Sessions |-> <<>>]
    /\ jsonData = [s \in Sessions |-> NilJSON]
    /\ ct = [s \in Sessions |-> Nil]
    /\ err = [s \in Sessions |-> Nil]
    /\ cfr = [s \in Sessions |-> NilMap]
    /\ closed = [c \in Sessions |-> 0]
    /\ trace = [c \in Sessions |-> <<>>]
    /\ eof = [c \in Sessions |-> FALSE]
    /\ cfo = [s \in Sessions |-> NoCalls]

Listeners == {"unix", "mesh"}

\* RunControlSvc is not called.
InitNoSvc ==
    /\ service = ""
    /\ unixSocket = ""
    /\ svcPc = "none"
    /\ svcRet = Nil
    /\ uli = "nil"
    /\ li = "nil"
    /\ lock = "nil"
    /\ ctxDone = FALSE
    /\ watcher = "none"
    /\ accepting = [l \in Listeners |-> "none"]

InitRegistry ==
    /\ \E stdServices \in BOOLEAN : controlTypes = New(stdServices)
    /\ lockW = 0
    /\ lockR = {}
    /\ adds = [r \in Registrars |-> IdleAdd]

---------------------------------------------------------------------------
(* Server.AddControlFunc (lines 119-128).                                   *)

\* line 120: Lock, with the arguments of the call
AddLock(r) ==
    /\ adds[r].pc = "idle"
    /\ lockW = 0
    /\ lockR = {}
    /\ \E name \in AddNames, cType \in AddTypes :
         adds' = [adds EXCEPT ![r] = [pc |-> "locked", name |-> name,
                                      cType |-> cType, ret |-> Nil]]
    /\ lockW' = r
    /\ UNCHANGED <<controlTypes, lockR>>
    /\ UNCHANGED <<sessVars, svcVars>>

\* an insert without the duplicate test of line 122 (the code has it)
InsertAlways(types, name, cType) ==
    [types |-> (name :> cType) @@ types, ret |-> Nil]

\* the bytes of a name as one string
RECURSIVE String(_)
String(b) == IF b = <<>> THEN "" ELSE b[1] \o String(Tail(b))

\* lines 122-127: the registry and the error AddControlFunc returns
Insert(types, name, cType) ==
    IF name \in DOMAIN types
    THEN [types |-> types,
          ret |-> "control function named " \o String(name) \o " already exists"]
    ELSE [types |-> (name :> cType) @@ types, ret |-> Nil]

\* lines 122-128: check, insert, and the deferred Unlock
AddInsert(r) ==
    /\ adds[r].pc = "locked"
    /\ LET i == Insert(controlTypes, adds[r].name, adds[r].cType)
       IN  /\ controlTypes' = i.types
           /\ adds' = [adds EXCEPT ![r].pc = "idle", ![r].ret = i.ret]
    /\ lockW' = 0
    /\ UNCHANGED lockR
    /\ UNCHANGED <<sessVars, svcVars>>

---------------------------------------------------------------------------
(* Server.RunControlSession (lines 131-258).                                *)

Emit(s, ev) == trace' = [trace EXCEPT ![conn[s]] = Append(@, ev)]

\* The ways a conn.Write may end: it fails on a closed connection, and may
\* fail on an open one.
WriteOutcomes(s) == IF closed[conn[s]] = 0 THEN {TRUE, FALSE} ELSE {FALSE}

\* The locals of the loop body at the start of an iteration: lines 149,
\* 171-173, 204, 216.
FreshLine(s) ==
    /\ cmdBytes' = [cmdBytes EXCEPT ![s] = <<>>]
    /\ cmd' = [cmd EXCEPT ![s] = <<>>]
    /\ params' = [params EXCEPT ![s] = <<>>]
    /\ jsonData' = [jsonData EXCEPT ![s] = NilJSON]
    /\ ct' = [ct EXCEPT ![s] = Nil]
    /\ cfr' = [cfr EXCEPT ![s] = NilMap]

\* return: the deferred conn.Close() of lines 133-139; the goroutine is
\* over and its locals are gone
Returned(s) ==
    /\ pc' = [pc EXCEPT ![s] = "closed"]
    /\ closed' = [closed EXCEPT ![conn[s]] = @ + 1]
    /\ FreshLine(s)
    /\ done' = [done EXCEPT ![s] = FALSE]
    /\ err' = [err EXCEPT ![s] = Nil]

\* a write whose error is ignored (the code returns on it)
WriteIgnoringError(s, data, next) ==
    \E ok \in WriteOutcomes(s) :
        /\ Emit(s, <<"write", data, ok>>)
        /\ pc' = [pc EXCEPT ![s] = next]
        /\ err' = [err EXCEPT ![s] = Nil]
        /\ UNCHANGED <<closed, done, cmdBytes, lineVars>>

\* conn.Write(data) followed by the `if err != nil { return }` that every
\* write of the engine has; on success the engine goes on at `next`.
Write(s, data, next) ==
    \E ok \in WriteOutcomes(s) :
        /\ Emit(s, <<"write", data, ok>>)
        /\ IF ok
           THEN /\ pc' = [pc EXCEPT ![s] = next]
                /\ err' = [err EXCEPT ![s] = Nil]
                /\ UNCHANGED <<closed, done, cmdBytes, lineVars>>
           ELSE Returned(s)

\* lines 140-145
Greeting(s) ==
    /\ pc[s] = "greet"
    /\ Write(s, GreetingLine, "top")
    /\ UNCHANGED <<conn, from, eof, cfo, regVars, svcVars>>

\* line 146: the loop test, and the start of a new iteration
LoopTest(s) ==
    /\ pc[s] = "top"
    /\ IF done[s]
       THEN Returned(s)
       ELSE /\ pc' = [pc EXCEPT ![s] = "read"]
            /\ FreshLine(s)
            /\ UNCHANGED <<closed, done, err>>
    /\ trace' = [trace EXCEPT ![conn[s]] = <<>>]
    /\ UNCHANGED <<conn, from, eof, cfo, regVars, svcVars>>

\* lines 152, 161-166: a read that returns no error, with n = 0 or n = 1;
\* E.prefixes is what the peer may have sent of a line
ReadByte(s, E) ==
    /\ pc[s] = "read"
    /\ closed[conn[s]] = 0
    /\ ~eof[conn[s]]
    /\ \E n \in {0, 1}, b \in Bytes(E.prefixes) \cup {NL} :
         IF n = 1 /\ b = NL
         THEN /\ cmdBytes[s] \in E.ends
              /\ pc' = [pc EXCEPT ![s] = "framed"]
              /\ UNCHANGED cmdBytes
         ELSE IF n = 1
         THEN /\ Append(cmdBytes[s], b) \in E.prefixes
              /\ cmdBytes' = [cmdBytes EXCEPT ![s] = Append(@, b)]
              /\ UNCHANGED pc
         ELSE UNCHANGED <<pc, cmdBytes>>
    /\ UNCHANGED <<conn, done, lineVars, err, closed, trace, from, eof, cfo>>
    /\ UNCHANGED <<regVars, svcVars>>

\* lines 153-156: the read returns io.EOF, where the peer closes the
\* stream or where its end was read before
ReadEOF(s, E) ==
    /\ pc[s] = "read"
    /\ closed[conn[s]] = 0
    /\ eof[conn[s]] \/ cmdBytes[s] \in E.eofs
    /\ done' = [done EXCEPT ![s] = TRUE]
    /\ eof' = [eof EXCEPT ![conn[s]] = TRUE]
    /\ pc' = [pc EXCEPT ![s] = "framed"]
    /\ UNCHANGED <<conn, cmdBytes, lineVars, err, closed, trace, from, cfo>>
    /\ UNCHANGED <<regVars, svcVars>>

\* an engine that takes any read error for the end of the stream (the code
\* returns on it)
ReadErrorAsEOF(s) ==
    /\ pc[s] = "read"
    /\ done' = [done EXCEPT ![s] = TRUE]
    /\ pc' = [pc EXCEPT ![s] = "framed"]
    /\ Emit(s, <<"ReadError", cmdBytes[s] # <<>> >>)
    /\ UNCHANGED <<conn, cmdBytes, lineVars, err, closed, from, eof, cfo>>
    /\ UNCHANGED <<regVars, svcVars>>

\* lines 157-160: the read returns another error; the record keeps whether
\* bytes of a line were read by then
ReadError(s) ==
    /\ pc[s] = "read"
    /\ Returned(s)
    /\ Emit(s, <<"ReadError", cmdBytes[s] # <<>> >>)
    /\ UNCHANGED <<conn, from, eof, cfo, regVars, svcVars>>

\* a skip test that also drops the partial line at EOF (the code's does not)
SkipLineOrDone(bytes, isDone) == Len(bytes) = 0 \/ isDone

\* line 168: the test that skips a line
SkipLine(bytes, isDone) == Len(bytes) = 0

\* an engine that dispatches the empty line (the code continues)
AfterEmptyLineLookup == "lookup"

\* line 169: `continue`, to the loop test
AfterEmptyLine == "top"

\* lines 168-202, up to the write of a parser error or the lookup
Dispatch(s) ==
    /\ pc[s] = "framed"
    /\ IF SkipLine(cmdBytes[s], done[s])
       THEN /\ pc' = [pc EXCEPT ![s] = AfterEmptyLine]
            /\ UNCHANGED <<lineVars, err>>
       ELSE LET p == ParseLine(cmdBytes[s])
            IN  /\ cmd' = [cmd EXCEPT ![s] = p.cmd]
                /\ params' = [params EXCEPT ![s] = p.params]
                /\ jsonData' = [jsonData EXCEPT ![s] = p.jsonData]
                /\ err' = [err EXCEPT ![s] = p.err]
                /\ pc' = [pc EXCEPT ![s] = IF p.err # Nil THEN "perr" ELSE "lookup"]
                /\ UNCHANGED <<ct, cfr>>
    /\ UNCHANGED <<conn, done, cmdBytes, closed, trace, from, eof, cfo>>
    /\ UNCHANGED <<regVars, svcVars>>

\* where the engine goes on after the write of line 188 succeeds: line 203
AfterParseError == "lookup"

\* lines 187-193
WriteParseError(s) ==
    /\ pc[s] = "perr"
    /\ Write(s, ErrorLine(err[s]), AfterParseError)
    /\ UNCHANGED <<conn, from, eof, cfo, regVars, svcVars>>

\* line 203
RLock(s) ==
    /\ pc[s] = "lookup"
    /\ lockW = 0
    /\ lockR' = lockR \cup {s}
    /\ pc' = [pc EXCEPT ![s] = "scan"]
    /\ UNCHANGED <<controlTypes, lockW, adds, svcVars>>
    /\ UNCHANGED <<conn, done, cmdBytes, lineVars, err, closed, trace, from, eof, cfo>>

\* lines 204-210: the scan of the registry for cmd
Lookup(types, name) ==
    IF \E f \in DOMAIN types : f = name THEN types[name] ELSE Nil

\* a scan without the RUnlock of line 211 (the code has it)
ScanKeepingLock(s) ==
    /\ pc[s] = "scan"
    /\ LET found == Lookup(controlTypes, cmd[s])
       IN  /\ ct' = [ct EXCEPT ![s] = found]
           /\ Emit(s, <<"lookup", cmd[s], found>>)
           /\ pc' = [pc EXCEPT ![s] = IF found # Nil THEN "init" ELSE "unknown"]
    /\ UNCHANGED <<controlTypes, lockW, lockR, adds, svcVars>>
    /\ UNCHANGED <<conn, done, cmdBytes, cmd, params, jsonData, cfr, err,
                   closed, from, eof, cfo>>

\* lines 204-212: the scan, RUnlock, and the test of ct
Scan(s) ==
    /\ pc[s] = "scan"
    /\ LET found == Lookup(controlTypes, cmd[s])
       IN  /\ ct' = [ct EXCEPT ![s] = found]
           /\ Emit(s, <<"lookup", cmd[s], found>>)
           /\ pc' = [pc EXCEPT ![s] = IF found # Nil THEN "init" ELSE "unknown"]
    /\ lockR' = lockR \ {s}
    /\ UNCHANGED <<controlTypes, lockW, adds, svcVars>>
    /\ UNCHANGED <<conn, done, cmdBytes, cmd, params, jsonData, cfr, err,
                   closed, from, eof, cfo>>

\* lines 218-222: which constructor is called, and with what
InitCall(s) ==
    IF jsonData[s].isNil
    THEN <<"InitFromString", ct[s], params[s]>>
    ELSE <<"InitFromJSON", ct[s], jsonData[s].fields>>

\* lines 213-225: the constructor returns, and on success ControlFunc
\* starts, with the calls it is going to make on cfo
InitCommand(s, E) ==
    /\ pc[s] = "init"
    /\ \E e \in {Nil} \cup E.initErrors :
         /\ err' = [err EXCEPT ![s] = e]
         /\ IF e = Nil
            THEN /\ trace' = [trace EXCEPT ![conn[s]] =
                                @ \o <<InitCall(s), <<"ControlFunc", ct[s]>> >>]
                 /\ pc' = [pc EXCEPT ![s] = "run"]
                 /\ \E run \in E.runs :
                      cfo' = [cfo EXCEPT ![s] =
                                [script |-> run.script, at |-> "none",
                                 left |-> <<>>, results |-> run.results]]
            ELSE /\ trace' = [trace EXCEPT ![conn[s]] =
                                @ \o <<InitCall(s), <<"returned", NilMap, e>> >>]
                 /\ pc' = [pc EXCEPT ![s] = "cerr"]
                 /\ UNCHANGED cfo
    /\ UNCHANGED <<conn, done, cmdBytes, lineVars, closed, from, eof>>
    /\ UNCHANGED <<regVars, svcVars>>

\* the call of cfo that the running command makes next
NextCall(s) == Head(cfo[s].script)

\* a call of cfo returns to the command
CallOver(s) ==
    cfo' = [cfo EXCEPT ![s].script = Tail(@), ![s].at = "none",
                       ![s].left = <<>>]

\* what is left unchanged by a step of the command inside ControlFunc
RunFrame ==
    /\ UNCHANGED <<pc, conn, done, cmdBytes, lineVars, err, from>>
    /\ UNCHANGED <<regVars, svcVars>>

\* the running command calls BridgeConn, ReadFromConn or WriteToConn:
\* lines 46, 58 and 73, the test of the message
CfoCall(s) ==
    /\ pc[s] = "run"
    /\ cfo[s].at = "none"
    /\ cfo[s].script # <<>>
    /\ NextCall(s).op # "Close"
    /\ cfo' = [cfo EXCEPT ![s].at =
                 IF NextCall(s).message # "" THEN "message" ELSE "body",
                             ![s].left = NextCall(s).data]
    /\ UNCHANGED <<closed, trace, eof>>
    /\ RunFrame

\* lines 47-50, 59-62 and 74-77: the message is written to the session's
\* connection, and the call returns the error of a failed write
CfoMessage(s) ==
    /\ pc[s] = "run"
    /\ cfo[s].at = "message"
    /\ \E ok \in WriteOutcomes(s) :
         /\ Emit(s, <<"cfoWrite", NextCall(s).message, ok>>)
         /\ IF ok
            THEN cfo' = [cfo EXCEPT ![s].at = "body"]
            ELSE CallOver(s)
    /\ UNCHANGED <<closed, eof>>
    /\ RunFrame

\* lines 79-84 of WriteToConn: what arrived on the channel is written to
\* the session's connection, and the call returns the error of a failed
\* write
CfoChanWrite(s) ==
    /\ pc[s] = "run"
    /\ cfo[s].at = "body"
    /\ NextCall(s).op = "WriteToConn"
    /\ cfo[s].left # <<>>
    /\ \E ok \in WriteOutcomes(s) :
         /\ Emit(s, <<"cfoWrite", Head(cfo[s].left), ok>>)
         /\ IF ok
            THEN cfo' = [cfo EXCEPT ![s].left = Tail(@)]
            ELSE CallOver(s)
    /\ UNCHANGED <<closed, eof>>
    /\ RunFrame

\* lines 79 and 85 of WriteToConn: the channel is closed, the call returns
\* nil
CfoChanClosed(s) ==
    /\ pc[s] = "run"
    /\ cfo[s].at = "body"
    /\ NextCall(s).op = "WriteToConn"
    /\ cfo[s].left = <<>>
    /\ CallOver(s)
    /\ UNCHANGED <<closed, trace, eof>>
    /\ RunFrame

\* The ways the io.Copy of line 64 may end: at the end of the stream, which
\* a closed connection does not reach, or by an error, which a stream whose
\* end was read does not give while the connection is open.
CopyOutcomes(s) ==
    IF closed[conn[s]] # 0 THEN {"error"}
    ELSE IF eof[conn[s]] THEN {"EOF"}
    ELSE {"EOF", "error"}

\* lines 64-68 of ReadFromConn: io.Copy reads the session's connection up
\* to the end of the stream or to an error
CfoCopy(s) ==
    /\ pc[s] = "run"
    /\ cfo[s].at = "body"
    /\ NextCall(s).op = "ReadFromConn"
    /\ \E o \in CopyOutcomes(s) :
         eof' = [eof EXCEPT ![conn[s]] = @ \/ o = "EOF"]
    /\ CallOver(s)
    /\ UNCHANGED <<closed, trace>>
    /\ RunFrame

\* The writes of `data` one after the other, of which the first n succeed
\* and the next one, if any, fails.
RelayWrites(data, n) ==
    [i \in 1..(IF n < Len(data) THEN n + 1 ELSE n) |->
        <<"cfoWrite", data[i], i <= n>>]

\* lines 52-53 of BridgeConn: utils.BridgeConns relays both ways between
\* the session's connection and bc until either side closes or fails: it
\* writes what bc sent to the connection, up to a write that fails, and
\* reads the connection, to the end of its stream or until the relay ends
\* otherwise
CfoBridge(s) ==
    /\ pc[s] = "run"
    /\ cfo[s].at = "body"
    /\ NextCall(s).op = "BridgeConn"
    /\ \E n \in 0..Len(cfo[s].left), o \in CopyOutcomes(s) :
         /\ closed[conn[s]] # 0 => n = 0
         /\ trace' = [trace EXCEPT ![conn[s]] =
                        @ \o RelayWrites(cfo[s].left, n)]
         /\ eof' = [eof EXCEPT ![conn[s]] = @ \/ o = "EOF"]
    /\ CallOver(s)
    /\ UNCHANGED closed
    /\ RunFrame

\* sockControl.Close (lines 88-90), called by the running command, on a
\* connection closed before or not
CmdClose(s) ==
    /\ pc[s] = "run"
    /\ cfo[s].at = "none"
    /\ cfo[s].script # <<>>
    /\ NextCall(s).op = "Close"
    /\ closed' = [closed EXCEPT ![conn[s]] = @ + 1]
    /\ Emit(s, <<"Close">>)
    /\ CallOver(s)
    /\ UNCHANGED eof
    /\ RunFrame

\* an engine that looks at the map before the error (the code tests err first)
AfterRunMapFirst(r) ==
    IF ~r.cfr.isNil
    THEN (IF Marshal(r.cfr.pairs).err # Nil THEN "merr" ELSE "wres")
    ELSE IF r.err # Nil THEN "cerr"
    ELSE "top"

\* an engine that goes back to the loop test without writing the response
\* (the code writes it first)
AfterRunNoWrite(r) == "top"

\* where the engine goes on after ControlFunc returned (cfr, err):
\* lines 226, 233-235
AfterRun(r) ==
    IF r.err # Nil THEN "cerr"
    ELSE IF r.cfr.isNil THEN "top"
    ELSE IF Marshal(r.cfr.pairs).err # Nil THEN "merr"
    ELSE "wres"

\* line 224: ControlFunc returns, between two of its calls of cfo or
\* after the last
CmdReturn(s) ==
    /\ pc[s] = "run"
    /\ cfo[s].at = "none"
    /\ \E r \in cfo[s].results :
         /\ err' = [err EXCEPT ![s] = r.err]
         /\ cfr' = [cfr EXCEPT ![s] = r.cfr]
         /\ pc' = [pc EXCEPT ![s] = AfterRun(r)]
         /\ Emit(s, <<"returned", r.cfr, r.err>>)
    /\ cfo' = [cfo EXCEPT ![s] = NoCalls]
    /\ UNCHANGED <<conn, done, cmdBytes, cmd, params, jsonData, ct, closed,
                   from, eof>>
    /\ UNCHANGED <<regVars, svcVars>>

\* lines 226-231
WriteCmdError(s) ==
    /\ pc[s] = "cerr"
    /\ Write(s, ErrorLine(err[s]), "top")
    /\ UNCHANGED <<conn, from, eof, cfo, regVars, svcVars>>

\* lines 235-241: the write of the serialization error; the engine then
\* goes on at line 242
WriteMarshalError(s) ==
    /\ pc[s] = "merr"
    /\ Write(s, MarshalErrorLine(Marshal(cfr[s].pairs).err), "wres")
    /\ UNCHANGED <<conn, from, eof, cfo, regVars, svcVars>>

\* lines 242-247: rbytes, with the newline appended, is written
WriteResult(s) ==
    /\ pc[s] = "wres"
    /\ Write(s, Marshal(cfr[s].pairs).bytes \o NL, "top")
    /\ UNCHANGED <<conn, from, eof, cfo, regVars, svcVars>>

\* lines 250-256
WriteUnknown(s) ==
    /\ pc[s] = "unknown"
    /\ Write(s, UnknownLine, "top")
    /\ UNCHANGED <<conn, from, eof, cfo, regVars, svcVars>>

\* One step of a session in the surroundings E.
Session(s, E) ==
    \/ Greeting(s)
    \/ LoopTest(s)
    \/ ReadByte(s, E)
    \/ ReadEOF(s, E)
    \/ ReadError(s)
    \/ Dispatch(s)
    \/ WriteParseError(s)
    \/ RLock(s)
    \/ Scan(s)
    \/ InitCommand(s, E)
    \/ CfoCall(s)
    \/ CfoMessage(s)
    \/ CfoChanWrite(s)
    \/ CfoChanClosed(s)
    \/ CfoCopy(s)
    \/ CfoBridge(s)
    \/ CmdClose(s)
    \/ CmdReturn(s)
    \/ WriteCmdError(s)
    \/ WriteMarshalError(s)
    \/ WriteResult(s)
    \/ WriteUnknown(s)

---------------------------------------------------------------------------
(* Server.RunControlSvc (lines 261-325).                                    *)

\* the message of lines 269 and 278, up to the error of the failed listen
\* that follows it
ErrUnixSocket == "error opening Unix socket"
ErrNoListeners == "no listeners specified"

\* lines 266-273: utils.UnixSocketListen, which may fail
ListenUnix ==
    /\ svcPc = "unix"
    /\ IF unixSocket # ""
       THEN \E ok \in BOOLEAN :
              IF ok
              THEN /\ uli' = "open"
                   /\ lock' = "held"
                   /\ svcPc' = "mesh"
                   /\ UNCHANGED svcRet
              ELSE /\ svcRet' = ErrUnixSocket
                   /\ svcPc' = "returned"
                   /\ UNCHANGED <<uli, lock>>
       ELSE /\ svcPc' = "mesh"
            /\ UNCHANGED <<uli, lock, svcRet>>
    /\ UNCHANGED <<service, unixSocket, li, ctxDone, watcher, accepting>>
    /\ UNCHANGED <<regVars, sessVars>>

\* a start without the test of line 283 (the code has it)
StartUnchecked(u, m) ==
    [ret |-> Nil, watcher |-> "waiting",
     accepting |-> [l \in Listeners |->
                      IF (l = "unix" /\ u # "nil") \/ (l = "mesh" /\ m # "nil")
                      THEN "running" ELSE "none"]]

\* lines 283-325 once both listens are over: the error of line 284, or the
\* three goroutines and a nil return
Start(u, m) ==
    IF u = "nil" /\ m = "nil"
    THEN [ret |-> ErrNoListeners, watcher |-> "none",
          accepting |-> [l \in Listeners |-> "none"]]
    ELSE [ret |-> Nil, watcher |-> "waiting",
          accepting |-> [l \in Listeners |->
                           IF (l = "unix" /\ u # "nil") \/ (l = "mesh" /\ m # "nil")
                           THEN "running" ELSE "none"]]

\* lines 274-325: s.nc.ListenAndAdvertise, which may fail, and the rest of
\* the call
ListenMesh ==
    /\ svcPc = "mesh"
    /\ \E ok \in BOOLEAN :
         IF service # "" /\ ~ok
         THEN /\ svcRet' = ErrUnixSocket
              /\ UNCHANGED <<li, watcher, accepting>>
         ELSE LET m == IF service # "" THEN "open" ELSE "nil"
                  st == Start(uli, m)
              IN  /\ li' = m
                  /\ svcRet' = st.ret
                  /\ watcher' = st.watcher
                  /\ accepting' = st.accepting
    /\ svcPc' = "returned"
    /\ UNCHANGED <<service, unixSocket, uli, lock, ctxDone>>
    /\ UNCHANGED <<regVars, sessVars>>

\* the context given to RunControlSvc is cancelled
Cancel ==
    /\ svcPc # "none"
    /\ ~ctxDone
    /\ ctxDone' = TRUE
    /\ UNCHANGED <<service, unixSocket, svcPc, svcRet, uli, li, lock, watcher,
                   accepting>>
    /\ UNCHANGED <<regVars, sessVars>>

\* lines 288-291: ctx.Done() is closed and the watcher goroutine, if there
\* is a Unix listener, closes it
WatcherCloseUnix ==
    /\ watcher = "waiting"
    /\ ctxDone
    /\ uli # "nil"
    /\ uli' = "closed"
    /\ watcher' = "unlock"
    /\ UNCHANGED <<service, unixSocket, svcPc, svcRet, li, lock, ctxDone,
                   accepting>>
    /\ UNCHANGED <<regVars, sessVars>>

\* line 292: the watcher releases the lock of the socket file
WatcherUnlock ==
    /\ watcher = "unlock"
    /\ lock' = "unlocked"
    /\ watcher' = "mesh"
    /\ UNCHANGED <<service, unixSocket, svcPc, svcRet, uli, li, ctxDone,
                   accepting>>
    /\ UNCHANGED <<regVars, sessVars>>

\* the watcher is at line 294: after line 292, or after <-ctx.Done() where
\* there is no Unix listener
WatcherAtMesh ==
    \/ watcher = "mesh"
    \/ watcher = "waiting" /\ ctxDone /\ uli = "nil"

\* a watcher that also closes the accepted connections (the code's does not)
WatcherCloseMeshAndSessions ==
    /\ WatcherAtMesh
    /\ li' = IF li # "nil" THEN "closed" ELSE li
    /\ watcher' = "done"
    /\ closed' = [c \in Sessions |->
                    IF \E s \in Sessions : conn[s] = c /\ pc[s] # "closed"
                    THEN closed[c] + 1 ELSE closed[c]]
    /\ UNCHANGED <<service, unixSocket, svcPc, svcRet, uli, lock, ctxDone,
                   accepting>>
    /\ UNCHANGED <<pc, conn, done, cmdBytes, cmd, params, jsonData, ct, err,
                   cfr, trace, from, eof, cfo, regVars>>

\* a watcher that forgets the mesh listener (the code closes it, line 295)
WatcherSkipMesh ==
    /\ WatcherAtMesh
    /\ watcher' = "done"
    /\ UNCHANGED <<service, unixSocket, svcPc, svcRet, uli, li, lock, ctxDone,
                   accepting>>
    /\ UNCHANGED <<regVars, sessVars>>

\* lines 294-297: the watcher, if there is a mesh listener, closes it, and
\* returns
WatcherCloseMesh ==
    /\ WatcherAtMesh
    /\ li' = IF li # "nil" THEN "closed" ELSE li
    /\ watcher' = "done"
    /\ UNCHANGED <<service, unixSocket, svcPc, svcRet, uli, lock, ctxDone,
                   accepting>>
    /\ UNCHANGED <<regVars, sessVars>>

\* lines 288-297: a step of the watcher goroutine after <-ctx.Done()
Shutdown ==
    \/ WatcherCloseUnix
    \/ WatcherUnlock
    \/ WatcherCloseMesh

ListenerState(l) == IF l = "unix" THEN uli ELSE li

\* an accept loop whose sessions all get the first connection (the code
\* passes each session the connection its Accept returned)
AcceptConnShared(l) ==
    /\ accepting[l] = "running"
    /\ ListenerState(l) = "open"
    /\ \E s \in Sessions :
         /\ pc[s] = "new"
         /\ \A t \in Sessions : pc[t] = "new" => s <= t
         /\ pc' = [pc EXCEPT ![s] = "greet"]
         /\ conn' = [conn EXCEPT ![s] = 1]
         /\ from' = [from EXCEPT ![s] = l]
    /\ UNCHANGED <<done, cmdBytes, cmd, params, jsonData, ct, err, cfr, closed,
                   trace, eof, cfo>>
    /\ UNCHANGED <<regVars, svcVars>>

\* lines 303, 308 and 315, 320: Accept returns a connection, and its session
\* goroutine starts
AcceptConn(l) ==
    /\ accepting[l] = "running"
    /\ ListenerState(l) = "open"
    /\ \E s \in Sessions :
         /\ pc[s] = "new"
         /\ \A t \in Sessions : pc[t] = "new" => s <= t
         /\ pc' = [pc EXCEPT ![s] = "greet"]
         /\ conn' = [conn EXCEPT ![s] = s]
         /\ from' = [from EXCEPT ![s] = l]
    /\ UNCHANGED <<done, cmdBytes, cmd, params, jsonData, ct, err, cfr, closed,
                   trace, eof, cfo>>
    /\ UNCHANGED <<regVars, svcVars>>

\* an accept error that ends both loops (in the code each loop returns on
\* its own error only)
AcceptErrorStopsAll(l) ==
    /\ accepting[l] = "running"
    /\ accepting' = [m \in Listeners |->
                       IF accepting[m] = "running" THEN "stopped"
                       ELSE accepting[m]]
    /\ UNCHANGED <<service, unixSocket, svcPc, svcRet, uli, li, lock, ctxDone,
                   watcher>>
    /\ UNCHANGED <<regVars, sessVars>>

\* lines 304-307 and 316-319: Accept returns an error, as it does on a
\* closed listener, and the loop ends
AcceptError(l) ==
    /\ accepting[l] = "running"
    /\ accepting' = [accepting EXCEPT ![l] = "stopped"]
    /\ UNCHANGED <<service, unixSocket, svcPc, svcRet, uli, li, lock, ctxDone,
                   watcher>>
    /\ UNCHANGED <<regVars, sessVars>>

\* Accept on a listener that was closed: it returns an error, and the loop
\* ends (lines 304-307 and 316-319)
AcceptOnClosed(l) ==
    /\ ListenerState(l) = "closed"
    /\ AcceptError(l)

---------------------------------------------------------------------------
(* The session specification: RunControlSession(conn) is called on one      *)
(* connection of a server made by New.                                      *)

vars == <<controlTypes, lockW, lockR, adds, pc, conn, done, cmdBytes, cmd,
          params, jsonData, ct, err, cfr, closed, trace, from, eof, cfo,
          service,
          unixSocket, svcPc, svcRet, uli, li, lock, ctxDone, watcher,
          accepting>>

\* RunControlSession(conn) called on connection 1, all else not started.
InitDirect ==
    /\ InitSession
    /\ InitNoSvc
    /\ pc = [s \in Sessions |-> IF s = 1 THEN "greet" ELSE "new"]
    /\ conn = [s \in Sessions |-> IF s = 1 THEN 1 ELSE 0]
    /\ from = [s \in Sessions |-> IF s = 1 THEN "direct" ELSE "none"]

Init ==
    /\ InitRegistry
    /\ InitDirect

Next == \E s \in Sessions : Session(s, FullEnv)

Spec == Init /\ [][Next]_vars


---------------------------------------------------------------------------
(* The registry specification: two callers of AddControlFunc beside a       *)
(* session that looks names up.                                             *)

RegNext ==
    \/ \E r \in Registrars : AddLock(r) \/ AddInsert(r)
    \/ \E s \in Sessions : Session(s, RegEnv)

RegSpec == Init /\ [][RegNext]_vars

---------------------------------------------------------------------------
(* The service specification: RunControlSvc on a server made by             *)
(* New(true, nc), with any of its listeners configured; the sessions are    *)
(* those its accept loops start.                                            *)

SvcInit ==
    /\ controlTypes = New(TRUE)
    /\ lockW = 0
    /\ lockR = {}
    /\ adds = [r \in Registrars |-> IdleAdd]
    /\ InitSession
    /\ pc = [s \in Sessions |-> "new"]
    /\ conn = [s \in Sessions |-> 0]
    /\ from = [s \in Sessions |-> "none"]
    /\ service \in {"", "control"}
    /\ unixSocket \in {"", "/run/receptor.sock"}
    /\ svcPc = "unix"
    /\ svcRet = Nil
    /\ uli = "nil"
    /\ li = "nil"
    /\ lock = "nil"
    /\ ctxDone = FALSE
    /\ watcher = "none"
    /\ accepting = [l \in Listeners |-> "none"]

SvcNext ==
    \/ ListenUnix
    \/ ListenMesh
    \/ Cancel
    \/ Shutdown
    \/ \E l \in Listeners : AcceptConn(l) \/ AcceptError(l)
    \/ \E s \in Sessions : Session(s, SvcEnv(s))

SvcSpec == SvcInit /\ [][SvcNext]_vars

\* The service under the scheduling of the Go runtime: the watcher goroutine
\* runs once ctx.Done() is closed, and an Accept blocked on a listener
\* returns once the listener is closed.
SvcFairNext ==
    \/ ListenUnix
    \/ ListenMesh
    \/ Cancel
    \/ Shutdown
    \/ \E l \in Listeners : AcceptConn(l) \/ AcceptError(l)
    \/ \E s \in Sessions : Session(s, FairEnv(s))

SvcFairSpec ==
    /\ SvcInit
    /\ [][SvcFairNext]_vars
    /\ WF_vars(Shutdown)
    /\ \A l \in Listeners : WF_vars(AcceptOnClosed(l))


---------------------------------------------------------------------------
(* The concurrent-sessions specification: RunControlSvc has returned nil    *)
(* with both listeners open, and the sessions its accept loops start run    *)
(* side by side.                                                            *)

ConcInit ==
    /\ controlTypes = New(TRUE)
    /\ lockW = 0
    /\ lockR = {}
    /\ adds = [r \in Registrars |-> IdleAdd]
    /\ InitSession
    /\ pc = [s \in Sessions |-> "new"]
    /\ conn = [s \in Sessions |-> 0]
    /\ from = [s \in Sessions |-> "none"]
    /\ service = "control"
    /\ unixSocket = "/run/receptor.sock"
    /\ svcPc = "returned"
    /\ svcRet = Nil
    /\ uli = "open"
    /\ li = "open"
    /\ lock = "held"
    /\ ctxDone = FALSE
    /\ watcher = "waiting"
    /\ accepting = [l \in Listeners |-> "running"]

ConcNext ==
    \/ \E l \in Listeners : AcceptConn(l) \/ AcceptError(l)
    \/ \E s \in Sessions : Session(s, ConcEnv(s))

ConcSpec == ConcInit /\ [][ConcNext]_vars

---------------------------------------------------------------------------
(* Properties.                                                              *)

\* the session goroutine runs
Active(s) == pc[s] \notin {"new", "closed"}

\* what was done on the connection of s since its current line began
Trace(s) == trace[conn[s]]

Has(tr, op) == \E i \in 1..Len(tr) : tr[i][1] = op

Count(tr, op) == Cardinality({ i \in 1..Len(tr) : tr[i][1] = op })

After(tr, i) == SubSeq(tr, i + 1, Len(tr))

\* the engine is at the loop test, a line behind it (and not the greeting)
LineEnded(s) ==
    /\ pc[s] = "top"
    /\ Trace(s) # << <<"write", GreetingLine, TRUE>> >>

TextLine(line) == line # <<>> /\ line[1] # "{"

\* s is at the loop test with `done` unset, and its next step starts the
\* read of the next line on a connection nobody closed
ReadsOn(s) ==
    ~done[s] /\ pc'[s] # pc[s]
        => pc'[s] = "read" /\ closed[conn[s]] = 0 /\ closed'[conn[s]] = 0

------------------------------------------------------------------------
\* C1, as stated: when the stream ends after a non-empty partial line, the
\* session does nothing for that line: no lookup, no command, no write.
C1_PartialLineDiscarded ==
    \A s \in Sessions :
        Active(s) /\ done[s] /\ cmdBytes[s] # <<>> => Trace(s) = <<>>

\* C1, amended: when the stream ends after a non-empty partial line, the
\* session handles the partial line as its last command (the name parsed
\* from it is looked up in the registry), and it never reads again.
C1_PartialLineHandled ==
    \A s \in Sessions :
        Active(s) /\ done[s] =>
            /\ pc[s] # "read"
            /\ LineEnded(s) /\ cmdBytes[s] # <<>> =>
                 \E i \in 1..Len(Trace(s)) :
                    /\ Trace(s)[i][1] = "lookup"
                    /\ Trace(s)[i][2] = ParseLine(cmdBytes[s]).cmd

C1_Witness ==
    \E s \in Sessions :
        /\ LineEnded(s) /\ done[s] /\ cmdBytes[s] = NamePING
        /\ Has(Trace(s), "ControlFunc")

------------------------------------------------------------------------
\* C2: for a line that begins with '{' and fails structured parsing, the
\* session writes the one line `ERROR: <message>` and nothing more: no
\* registry lookup, no command, no second write.
C2_ParseErrorOnly ==
    \A s \in Sessions :
        Active(s) /\ cmdBytes[s] # <<>> /\ cmdBytes[s][1] = "{"
                  /\ ParseJSONLine(cmdBytes[s]).err # Nil =>
            /\ ~Has(Trace(s), "lookup")
            /\ ~Has(Trace(s), "InitFromString")
            /\ ~Has(Trace(s), "InitFromJSON")
            /\ Count(Trace(s), "write") <= 1
            /\ LineEnded(s) =>
                 Trace(s) = << <<"write",
                                 "ERROR: " \o ParseJSONLine(cmdBytes[s]).err \o "\n",
                                 TRUE>> >>

------------------------------------------------------------------------
\* C3: a call of AddControlFunc on a name the registry holds returns an
\* error and leaves the registry as it was, a call on a new name binds it;
\* and no step ever changes or removes the type bound to a name.
C3_FirstRegistrationWins ==
    [][ /\ \A r \in Registrars :
             adds[r].pc = "locked" /\ adds'[r].pc = "idle" =>
                IF adds[r].name \in DOMAIN controlTypes
                THEN adds'[r].ret # Nil /\ controlTypes' = controlTypes
                ELSE /\ adds'[r].ret = Nil
                     /\ DOMAIN controlTypes' = DOMAIN controlTypes \cup {adds[r].name}
                     /\ controlTypes'[adds[r].name] = adds[r].cType
        /\ \A n \in DOMAIN controlTypes :
             n \in DOMAIN controlTypes' /\ controlTypes'[n] = controlTypes[n]
      ]_vars

C3_Witness ==
    \E r \in Registrars :
        /\ adds[r].pc = "idle" /\ adds[r].ret # Nil
        /\ adds[r].name = <<"n","o">>
        /\ controlTypes[adds[r].name] # adds[r].cType

------------------------------------------------------------------------
\* C4: for a non-empty plain-text line whose lower-cased name is not in the
\* registry, what the session did when the line is behind it is the lookup
\* and the one write of `ERROR: Unknown command\n`; and after a line that a
\* newline ended, it goes on to read the next line.
C4_UnknownCommand ==
    [][ \A s \in Sessions :
          LineEnded(s) /\ TextLine(cmdBytes[s])
                       /\ ParseTextLine(cmdBytes[s]).cmd \notin DOMAIN controlTypes =>
            /\ Trace(s) = << <<"lookup", ParseTextLine(cmdBytes[s]).cmd, Nil>>,
                             <<"write", "ERROR: Unknown command\n", TRUE>> >>
            /\ ReadsOn(s)
      ]_vars

C4_Witness ==
    \E s \in Sessions :
        /\ LineEnded(s) /\ ~done[s] /\ cmdBytes[s] = <<"n","o">>
        /\ Count(Trace(s), "write") = 1

------------------------------------------------------------------------
\* C5: when ControlFunc returned no error, a nil map is followed by no write
\* and a non-nil map by exactly one write, its JSON serialization and '\n'.
C5_ResultWritten ==
    \A s \in Sessions :
        LineEnded(s) =>
            \A i \in 1..Len(Trace(s)) :
                Trace(s)[i][1] = "returned" /\ Trace(s)[i][3] = Nil =>
                    IF Trace(s)[i][2].isNil
                    THEN After(Trace(s), i) = <<>>
                    ELSE After(Trace(s), i) =
                           << <<"write",
                                Marshal(Trace(s)[i][2].pairs).bytes \o "\n",
                                TRUE>> >>

------------------------------------------------------------------------
\* C6: when the constructor or ControlFunc returned an error, what follows
\* is the one write of `ERROR: <message>\n` (a map returned beside the error
\* is not written); the connection is not closed, and after a line that a
\* newline ended the session goes on to read the next line.
C6_ErrorReported ==
    [][ \A s \in Sessions :
          LineEnded(s) =>
            \A i \in 1..Len(Trace(s)) :
                Trace(s)[i][1] = "returned" /\ Trace(s)[i][3] # Nil =>
                    /\ After(Trace(s), i) =
                         << <<"write", "ERROR: " \o Trace(s)[i][3] \o "\n", TRUE>> >>
                    /\ closed[conn[s]] = 0
                    /\ ReadsOn(s)
      ]_vars

C6_Witness ==
    \E s \in Sessions :
        /\ LineEnded(s) /\ ~done[s]
        /\ \E i \in 1..Len(Trace(s)) :
              Trace(s)[i][1] = "returned" /\ Trace(s)[i][3] = "command failed"

------------------------------------------------------------------------
\* index of the first space of the line, Len(line) + 1 when it has none
FirstSpace(line) ==
    CHOOSE k \in 1..(Len(line) + 1) :
        /\ k = Len(line) + 1 \/ line[k] = " "
        /\ \A j \in 1..(k - 1) : line[j] # " "

\* d is the byte c in lower case
LowerOf(c, d) ==
    \/ c = d /\ \A i \in 1..26 : UpperCase[i] # c
    \/ \E i \in 1..26 : c = UpperCase[i] /\ d = LowerCase[i]

\* C7: on a plain-text line the name looked up is the text before the first
\* space in lower case, and InitFromString gets the text after that space
\* as it is; on a structured line that parsed, the name looked up is the
\* `command` string as it was sent, and InitFromJSON gets the decoded map.
C7_NameAndArguments ==
    \A s \in Sessions :
        Active(s) /\ cmdBytes[s] # <<>> /\ Trace(s) # <<>>
                  /\ Trace(s)[1][1] = "lookup" =>
            LET line == cmdBytes[s]
                name == Trace(s)[1][2]
                k == FirstSpace(line)
                sent == JCmd(<<Q>> \o name \o <<Q>>)
            IN  IF line[1] # "{"
                THEN /\ Len(name) = k - 1
                     /\ \A i \in 1..(k - 1) : LowerOf(line[i], name[i])
                     /\ ~Has(Trace(s), "InitFromJSON")
                     /\ \A i \in 1..Len(Trace(s)) :
                          Trace(s)[i][1] = "InitFromString" =>
                             Trace(s)[i][3] = SubSeq(line, k + 1, Len(line))
                ELSE /\ Len(line) > Len(sent)
                     /\ SubSeq(line, 1, Len(sent)) = sent
                     /\ ~Has(Trace(s), "InitFromString")
                     /\ \A i \in 1..Len(Trace(s)) :
                          Trace(s)[i][1] = "InitFromJSON" =>
                             /\ Trace(s)[i][3] = Unmarshal(line).fields
                             /\ Trace(s)[i][3][CommandKey].v = name

C7_Witness ==
    \E s \in Sessions :
        /\ LineEnded(s)
        /\ cmdBytes[s] = <<"P","i","n","g"," ","a"," ","b">>
        /\ Trace(s)[1] = <<"lookup", NamePing, "pingCommandType">>
        /\ Trace(s)[2] = <<"InitFromString", "pingCommandType", <<"a"," ","b">> >>

------------------------------------------------------------------------
\* C8: after a newline with no byte before it, the session has done nothing
\* on the connection, and its next steps take it to the loop test and on to
\* the read of the next line, with nothing written, looked up or called and
\* the connection left open.
C8_EmptyLineIgnored ==
    [][ \A s \in Sessions :
          pc[s] \in {"framed", "top"} /\ cmdBytes[s] = <<>> /\ ~done[s]
                /\ Trace(s) # << <<"write", GreetingLine, TRUE>> >> =>
            /\ Trace(s) = <<>>
            /\ pc'[s] # pc[s] =>
                 /\ pc'[s] = IF pc[s] = "framed" THEN "top" ELSE "read"
                 /\ trace'[conn[s]] = <<>>
                 /\ closed[conn[s]] = 0 /\ closed'[conn[s]] = 0
      ]_vars

C8_Witness ==
    \E s \in Sessions :
        pc[s] = "top" /\ cmdBytes[s] = <<>> /\ ~done[s] /\ Trace(s) = <<>>

------------------------------------------------------------------------
\* C9: after end-of-stream with no byte of a line read, the session does
\* nothing on the connection: its next steps take it to the loop test and
\* to its return; and once it returned, nothing is done on its connection.
C9_CleanEndOfStream ==
    [][ \A s \in Sessions :
          /\ Active(s) /\ done[s] /\ cmdBytes[s] = <<>> =>
               /\ Trace(s) = <<>>
               /\ pc[s] \in {"framed", "top"}
               /\ pc'[s] # pc[s] =>
                    /\ pc'[s] = IF pc[s] = "framed" THEN "top" ELSE "closed"
                    /\ trace'[conn[s]] = <<>>
          /\ pc[s] = "closed" =>
               pc'[s] = "closed" /\ trace'[conn[s]] = trace[conn[s]]
      ]_vars

C9_Witness ==
    \E s \in Sessions :
        pc[s] = "top" /\ done[s] /\ cmdBytes[s] = <<>> /\ Trace(s) = <<>>

------------------------------------------------------------------------
\* C10: the cancellation and the shutdown it triggers leave every session
\* and every connection as they are; a session that is reading on an open
\* connection after the shutdown can go on reading; and a session returns
\* only after end-of-stream, on a read error or on a failed write of its
\* own.
C10_SessionsOutliveCancel ==
    [][ /\ ctxDone' # ctxDone \/ watcher' # watcher =>
             UNCHANGED <<pc, conn, closed, done, cmdBytes, trace, eof, cfo>>
        /\ \A s \in Sessions :
             /\ /\ watcher = "done" /\ pc[s] = "read"
                /\ closed[conn[s]] = 0 /\ ~eof[conn[s]]
                => ENABLED ReadByte(s, SvcEnv(s))
             /\ Active(s) /\ pc'[s] = "closed" =>
                  \/ pc[s] = "top" /\ done[s]
                  \/ pc[s] = "read"
                  \/ /\ trace'[conn[s]] # <<>>
                     /\ LET e == trace'[conn[s]][Len(trace'[conn[s]])]
                        IN  e[1] = "write" /\ ~e[3]
      ]_vars

C10_Witness ==
    \E s, t \in Sessions :
        /\ watcher = "done" /\ uli = "closed" /\ li = "closed"
        /\ from[s] = "mesh" /\ from[t] = "unix"
        /\ pc[s] = "top" /\ Has(Trace(s), "ControlFunc")
        /\ Count(Trace(s), "write") = 1
        /\ pc[t] = "read" /\ closed[conn[t]] = 0


------------------------------------------------------------------------
\* C11: once RunControlSvc returned nil and the context is cancelled, the
\* listeners that were opened get closed, the lock of the local socket gets
\* released and the accept loops end; and once no accept loop runs, no new
\* session starts.
C11_CancelClosesListeners ==
    /\ (svcPc = "returned" /\ svcRet = Nil /\ ctxDone)
          ~> (/\ uli # "open" /\ li # "open" /\ lock # "held"
              /\ \A l \in Listeners : accepting[l] # "running")
    /\ [][ (svcPc = "returned" /\ \A l \in Listeners : accepting[l] # "running")
             => /\ \A s \in Sessions : pc[s] = "new" => pc'[s] = "new"
                /\ \A l \in Listeners : accepting'[l] # "running"
          ]_vars

C11_Witness ==
    /\ svcRet = Nil /\ ctxDone /\ watcher = "done"
    /\ uli = "closed" /\ li = "closed" /\ lock = "unlocked"
    /\ \A l \in Listeners : accepting[l] = "stopped"
    /\ \E s \in Sessions : pc[s] = "new"

------------------------------------------------------------------------
\* what the engine writes after ControlFunc or a constructor returned e
ResponsesToReturn(e) ==
    IF e[3] # Nil THEN {ErrorLine(e[3])}
    ELSE IF e[2].isNil THEN {}
    ELSE IF Marshal(e[2].pairs).err # Nil
         THEN {MarshalErrorLine(Marshal(e[2].pairs).err), NL}
    ELSE {Marshal(e[2].pairs).bytes \o NL}

\* what the engine may write on a connection whose current line is `line`
\* and on which tr was done: the greeting before the first line, and for a
\* line the responses to it and to what its command returned
ResponsesTo(line, tr) ==
    IF line = <<>> THEN {GreetingLine}
    ELSE (IF ParseLine(line).err # Nil
          THEN {ErrorLine(ParseLine(line).err)} ELSE {})
         \cup (IF ParseLine(line).cmd \notin DOMAIN controlTypes
               THEN {UnknownLine} ELSE {})
         \cup UNION { ResponsesToReturn(tr[j]) :
                        j \in {i \in 1..Len(tr) : tr[i][1] = "returned"} }

\* C12: concurrent sessions have connections of their own; a step of a
\* session changes nothing on another connection; and what is on a
\* connection is what its own session did for the line it read from it: one
\* lookup of that line's name, one command, and the responses to them.
C12_OwnConnectionOnly ==
    /\ [](\A s \in Sessions : Active(s) =>
            /\ \A t \in Sessions \ {s} : conn[t] # conn[s]
            /\ Count(Trace(s), "lookup") <= 1
            /\ Count(Trace(s), "returned") <= 1
            /\ \A i \in 1..Len(Trace(s)) :
                 /\ Trace(s)[i][1] = "lookup" =>
                      /\ cmdBytes[s] # <<>>
                      /\ Trace(s)[i][2] = ParseLine(cmdBytes[s]).cmd
                 /\ Trace(s)[i][1] = "write" =>
                      Trace(s)[i][2] \in ResponsesTo(cmdBytes[s], Trace(s)))
    /\ [][ \A s \in Sessions :
             Active(s) /\ (pc'[s] # pc[s] \/ cfo'[s] # cfo[s]) =>
                \A c \in Sessions \ {conn[s]} :
                    /\ trace'[c] = trace[c]
                    /\ closed'[c] = closed[c]
                    /\ eof'[c] = eof[c]
         ]_vars

C12_Witness ==
    /\ pc[1] = "wres" /\ pc[2] = "unknown"
    /\ from[1] # from[2]
    /\ Has(Trace(1), "ControlFunc")
    /\ Count(Trace(2), "write") = 1
    /\ cmdBytes[1] = NamePing /\ cmdBytes[2] = <<"{">>

------------------------------------------------------------------------
\* C13: a call of RunControlSvc with an empty service name and an empty
\* socket path returns the error `no listeners specified`; no listener was
\* opened, and no watcher, accept loop or session ever runs.
C13_NoListenersError ==
    service = "" /\ unixSocket = "" =>
        /\ svcPc = "returned" => svcRet = ErrNoListeners
        /\ uli = "nil" /\ li = "nil" /\ lock = "nil"
        /\ watcher = "none"
        /\ \A l \in Listeners : accepting[l] = "none"
        /\ \A s \in Sessions : pc[s] = "new"

C13_Witness ==
    /\ service = "" /\ unixSocket = ""
    /\ svcPc = "returned" /\ svcRet = ErrNoListeners /\ ctxDone

------------------------------------------------------------------------
\* C14: Close is called on the connection of a session exactly once: once
\* the session has returned it was called, and it is never called twice.
C14_ClosedExactlyOnce ==
    \A s \in Sessions :
        /\ pc[s] # "new" => closed[conn[s]] <= 1
        /\ pc[s] = "closed" => closed[conn[s]] = 1

------------------------------------------------------------------------
\* the work that tr began is over: the command that was started returned,
\* and every response was written
Handled(tr) ==
    \A i \in 1..Len(tr) :
        /\ tr[i][1] = "ControlFunc" =>
             \E j \in (i + 1)..Len(tr) : tr[j][1] = "returned"
        /\ tr[i][1] = "lookup" /\ tr[i][3] = Nil =>
             \E j \in (i + 1)..Len(tr) : tr[j][1] = "write"
        /\ tr[i][1] = "returned" =>
             Count(After(tr, i), "write") = Cardinality(ResponsesToReturn(tr[i]))

\* C15: a session reads only while nothing of the current line is begun;
\* once it has left the read loop the line stays as read until the loop
\* test; and it starts the read of the next line only from the loop test,
\* with the lookup for the line done, its command returned, no call of the
\* command on the connection under way, and every response written.
C15_NoPipelining ==
    [][ \A s \in Sessions : Active(s) =>
          /\ pc[s] = "read" => Trace(s) = <<>>
          /\ pc[s] # "read" =>
               \/ cmdBytes'[s] = cmdBytes[s]
               \/ pc[s] = "top" /\ cmdBytes'[s] = <<>>
               \/ pc'[s] = "closed"
          /\ pc'[s] = "read" /\ pc[s] # "read" =>
               /\ pc[s] = "top"
               /\ cmdBytes[s] # <<>> => Has(Trace(s), "lookup")
               /\ Handled(Trace(s))
               /\ cfo[s] = NoCalls
      ]_vars

C15_Witness ==
    \E s \in Sessions :
        /\ LineEnded(s) /\ ~done[s] /\ cmdBytes[s] = NamePING
        /\ Has(Trace(s), "returned")
        /\ Count(Trace(s), "write") = 2

------------------------------------------------------------------------
\* C16: the step in which a write of the engine fails is the return of the
\* session (with the deferred Close); a running session has no failed write
\* behind it; and a session that returned does nothing more: no write, no
\* read, no command.
C16_WriteFailureCloses ==
    [][ \A s \in Sessions :
          /\ Active(s) =>
               /\ \A i \in 1..Len(Trace(s)) :
                    Trace(s)[i][1] = "write" => Trace(s)[i][3]
               /\ LET tr == trace'[conn[s]]
                  IN  /\ tr # Trace(s) /\ tr # <<>>
                      /\ tr[Len(tr)][1] = "write" /\ ~tr[Len(tr)][3]
                      => /\ pc'[s] = "closed"
                         /\ closed'[conn[s]] = closed[conn[s]] + 1
          /\ pc[s] = "closed" =>
               /\ pc'[s] = "closed"
               /\ trace'[conn[s]] = Trace(s)
               /\ closed'[conn[s]] = closed[conn[s]]
               /\ cmdBytes'[s] = cmdBytes[s]
               /\ eof'[conn[s]] = eof[conn[s]]
               /\ cfo'[s] = NoCalls
      ]_vars

C16_Witness ==
    \E s \in Sessions :
        /\ pc[s] = "closed" /\ closed[conn[s]] = 1
        /\ Len(Trace(s)) = 2
        /\ Trace(s)[1][1] = "lookup"
        /\ Trace(s)[2] = <<"write", UnknownLine, FALSE>>

------------------------------------------------------------------------
\* C17: the step in which a read fails with an error other than EOF is the
\* return of the session from its read loop (with the deferred Close):
\* nothing of the line was looked up, run or written, and no running
\* session has a failed read behind it.
C17_ReadErrorCloses ==
    [][ \A s \in Sessions :
          /\ Active(s) => ~Has(Trace(s), "ReadError")
          /\ Active(s) /\ Has(trace'[conn[s]], "ReadError") =>
               /\ pc[s] = "read" /\ pc'[s] = "closed"
               /\ trace'[conn[s]] = << <<"ReadError", cmdBytes[s] # <<>> >> >>
               /\ closed'[conn[s]] = closed[conn[s]] + 1
      ]_vars

C17_Witness ==
    \E s \in Sessions :
        /\ pc[s] = "closed" /\ closed[conn[s]] = 1
        /\ Trace(s) = << <<"ReadError", TRUE>> >>

------------------------------------------------------------------------
\* C18: only a session that is scanning the registry holds the read lock;
\* a session whose command is being constructed or run holds none, and
\* while it is there a caller of AddControlFunc can take the lock unless
\* another caller has it or a session is scanning.
C18_NoLockWhileRunning ==
    /\ lockR \subseteq {s \in Sessions : pc[s] = "scan"}
    /\ \A s \in Sessions : pc[s] \in {"init", "run"} =>
         /\ s \notin lockR
         /\ \A r \in Registrars :
              /\ adds[r].pc = "idle" /\ lockW = 0
              /\ \A t \in Sessions : pc[t] # "scan"
              => ENABLED AddLock(r)

C18_Witness ==
    \E s \in Sessions, r \in Registrars :
        /\ pc[s] = "run" /\ Has(Trace(s), "ControlFunc")
        /\ cfo[s].at = "body" /\ NextCall(s).op = "BridgeConn"
        /\ adds[r].pc = "locked" /\ lockW = r

------------------------------------------------------------------------
\* C19: the step in which the accept loop of one listener ends on an error
\* leaves the other loop, both listeners, every session and every
\* connection as they are; a loop that runs on an open listener can accept
\* whatever became of the other loop; and a session reading on an open
\* connection can go on reading whatever became of the loop it came from.
C19_AcceptErrorIsLocal ==
    [][ /\ \A l \in Listeners :
             accepting[l] = "running" /\ accepting'[l] = "stopped" =>
                /\ \A m \in Listeners \ {l} : accepting'[m] = accepting[m]
                /\ UNCHANGED <<uli, li, lock, watcher>>
                /\ UNCHANGED <<pc, conn, done, cmdBytes, closed, trace, from,
                               eof, cfo>>
        /\ \A m \in Listeners :
             /\ accepting[m] = "running" /\ ListenerState(m) = "open"
             /\ \E s \in Sessions : pc[s] = "new"
             => ENABLED AcceptConn(m)
        /\ \A s \in Sessions :
             pc[s] = "read" /\ closed[conn[s]] = 0 /\ ~eof[conn[s]] =>
                ENABLED ReadByte(s, ConcEnv(s))
      ]_vars

C19_Witness ==
    /\ accepting["unix"] = "stopped" /\ accepting["mesh"] = "running"
    /\ from[1] = "unix" /\ pc[1] = "run"
    /\ from[2] = "mesh" /\ pc[2] = "greet"

------------------------------------------------------------------------
\* C20: when RunControlSvc has returned an error, no listener is open and
\* the lock of the local socket is not held.
C20_NoLeakOnError ==
    svcPc = "returned" /\ svcRet # Nil =>
        uli # "open" /\ li # "open" /\ lock # "held"

=============================================================================
